---- MODULE Spec2Model ----
(***************************************************************************)
(* Model of sea/cli.py: the task registry (TaskManager, TaskOption), the   *)
(* discovery of task modules (TaskCmd._load_plugin_tasks,                  *)
(* TaskCmd._load_app_tasks) and the dispatch of one task (TaskCmd.run).    *)
(*                                                                         *)
(* One behaviour is one run of `sea invoke <task> [extra...]`.  The        *)
(* environment of the run (installed entry points, the listing of          *)
(* <root>/tasks/, the command line) is chosen in Init.  A task module is a *)
(* sequence of statements in the order Python executes them: a `def`       *)
(* creates a function object, the decorators of the def are applied        *)
(* innermost first.                                                        *)
(***************************************************************************)
EXTENDS Integers, Sequences, FiniteSets, TLC

\* ------------------------------------------------------------------ bounds
MaxPlugins == 2      \* entry points installed under 'sea.tasks'
MaxFiles == 2        \* entries listed in <root>/tasks/
MaxExtra == 2        \* leftover command-line tokens

\* ------------------------------------------------- option descriptors (14-17)
\* TaskOption(*args, **kwargs): the positional spellings and the keyword
\* configuration, stored as given.  Keywords not passed have argparse's
\* defaults (action "store", type str, required False).
TaskOption(args, kwargs) == [args |-> args, kwargs |-> kwargs]

KwIntRequired == [action |-> "store", type |-> "int", required |-> TRUE]
KwStoreTrue == [action |-> "store_true", type |-> "str", required |-> FALSE]

OptX == TaskOption(<<"--x">>, KwIntRequired)
OptVerbose == TaskOption(<<"--verbose">>, KwStoreTrue)
NoOpt == TaskOption(<<>>, KwStoreTrue)

\* ------------------------------------------------------- module statements
StDef == [op |-> "def", name |-> "", opt |-> NoOpt]
StOption(o) == [op |-> "option", name |-> "", opt |-> o]
StTask(n) == [op |-> "task", name |-> n, opt |-> NoOpt]
StRaise == [op |-> "raise", name |-> "", opt |-> NoOpt]

\* Modules that entry points of group 'sea.tasks' can name.
PluginModules == {"plug_build", "plug_misc", "plug_bad"}

\* Entries that os.listdir(<root>/tasks) can return.
DirEntries == {"build.py", "deploy.py", "bad.py", "__init__.py"}

\* Further entries a tasks directory can hold: a file that is no Python
\* source and a subdirectory whose name ends in .py.
OtherEntries == {"notes.txt", "pkg.py"}

\* os.path.isfile(os.path.join(root, m))
IsFile(m) == m \in {"build.py", "deploy.py", "bad.py", "__init__.py", "notes.txt"}

\* m.endswith('.py')
EndsWithPy(m) == m \in {"build.py", "deploy.py", "bad.py", "__init__.py", "pkg.py"}

\* 'tasks.{}'.format(m[:-3])
ModulePath(m) ==
    CASE m = "build.py" -> "tasks.build"
      [] m = "deploy.py" -> "tasks.deploy"
      [] m = "bad.py" -> "tasks.bad"
      [] m = "__init__.py" -> "tasks.__init__"
      [] m = "pkg.py" -> "tasks.pkg"
      [] m = "notes.txt" -> "tasks.notes."
      [] OTHER -> "tasks."

\* The text of each module, top to bottom: decorated function definitions
\* (the decorators, then the def) and statements that raise.
\*   plug_build:   @taskm.task('build') @taskm.option('--x', type=int, required=True) def
\*   plug_misc:    @taskm.task('deploy') def                       (no option)
\*                 @taskm.task('dup') @taskm.option('--x',..) @taskm.option('--x',..) def
\*   plug_bad:     @taskm.task('deploy') def ; then a load-time error
\*   tasks.build:  @taskm.task('rebuild') @taskm.option('--verbose', action='store_true')
\*                 @taskm.task('build') @taskm.option('--x', type=int, required=True) def
\*   tasks.deploy: @taskm.task('deploy') def                       (no option)
\*   tasks.bad:    @taskm.task('build') def ; then a load-time error
\*   tasks.pkg:    @taskm.task('pkg') def       (the package tasks/pkg.py/, were it imported)
ModuleText(mod) ==
    CASE mod = "plug_build" -> << <<StTask("build"), StOption(OptX), StDef>> >>
      [] mod = "plug_misc" -> << <<StTask("deploy"), StDef>>,
                                 <<StTask("dup"), StOption(OptX), StOption(OptX), StDef>> >>
      [] mod = "plug_bad" -> << <<StTask("deploy"), StDef>>, <<StRaise>> >>
      [] mod = "tasks.build" -> << <<StTask("rebuild"), StOption(OptVerbose),
                                     StTask("build"), StOption(OptX), StDef>> >>
      [] mod = "tasks.deploy" -> << <<StTask("deploy"), StDef>> >>
      [] mod = "tasks.bad" -> << <<StTask("build"), StDef>>, <<StRaise>> >>
      [] mod = "tasks.pkg" -> << <<StTask("pkg"), StDef>> >>
      [] OTHER -> <<>>

Reverse(q) == [i \in 1..Len(q) |-> q[Len(q) + 1 - i]]

RECURSIVE Flatten(_, _)
\* The statements of items i.. of a module text in the order Python executes
\* them: the function is defined, then its decorators are applied from the
\* one next to the def upwards.
Flatten(text, i) ==
    IF i > Len(text) THEN <<>> ELSE Reverse(text[i]) \o Flatten(text, i + 1)

\* The statements each module executes when it is imported.
ModuleBody(mod) == Flatten(ModuleText(mod), 1)

TaskNames == {"build", "deploy", "dup"}

\* Tokens the outer parser can leave over for the task.
Tokens == {"--x", "5", "abc", "--help"}

\* ---------------------------------------------------------------- helpers
RECURSIVE SeqsUpTo(_, _)
\* the sequences over S of length at most n
SeqsUpTo(S, n) ==
    IF n = 0 THEN {<<>>}
    ELSE LET shorter == SeqsUpTo(S, n - 1)
         IN shorter \cup {Append(q, x) : q \in shorter, x \in S}

Range(q) == {q[i] : i \in 1..Len(q)}

\* sequences without repetition (a directory lists a name once)
Distinct(q) == Cardinality(Range(q)) = Len(q)

\* -------------------------------------------------- the registry (20-41)
\* The state the module-level code of a task module acts on:
\*   tasks   taskm.tasks, a dict name -> function object (20-23)
\*   heap    the function objects created so far; heap[f].opts is the
\*           attribute f.opts (hasOpts: the attribute exists) and heap[f].ids
\*           the identities of the TaskOption objects in that list
\*   cur     the function object the decorators are being applied to
\*   regLog  history: the registrations made, in order, as <<name, f>>
\*   declLog history: the option declarations made, in order, as
\*           <<f, opt, whether f was registered already>>
EmptyTasks == [n \in {} |-> 0]

NewFunction(mod) == [origin |-> mod, hasOpts |-> FALSE, opts |-> <<>>, ids |-> <<>>]

\* the identity of the next TaskOption object created (36)
NewId(heap) == Cardinality(UNION {Range(heap[f].ids) : f \in 1..Len(heap)}) + 1

\* getattr(func, 'opts', [])
GetOpts(heap, f) == IF heap[f].hasOpts THEN heap[f].opts ELSE <<>>

\* def: a new function object
ExecDef(st, mod) ==
    [st EXCEPT !.heap = Append(st.heap, NewFunction(mod)),
               !.cur = Len(st.heap) + 1]

\* A registration that keeps the entry a name already has.
TaskWrapperKeepFirst(tasks, name, func) ==
    IF name \in DOMAIN tasks THEN tasks
    ELSE [n \in DOMAIN tasks \cup {name} |-> IF n = name THEN func ELSE tasks[n]]

\* A registration that starts the dict afresh: self.tasks = {name: func}.
TaskWrapperReset(tasks, name, func) == [n \in {name} |-> func]

\* taskm.task(name)(func): self.tasks[name] = func
TaskWrapper(tasks, name, func) ==
    [n \in DOMAIN tasks \cup {name} |-> IF n = name THEN func ELSE tasks[n]]

\* An option() that checks the spelling when the option is declared and
\* leaves out an option whose spelling the callable has already.
OptionWrapperValidating(heap, func, opt) ==
    LET opts == GetOpts(heap, func)
    IN IF \E i \in 1..Len(opts) : Range(opts[i].args) \cap Range(opt.args) # {}
       THEN heap
       ELSE [heap EXCEPT ![func] = [@ EXCEPT !.hasOpts = TRUE,
                                             !.opts = Append(opts, opt),
                                             !.ids = Append(@, NewId(heap))]]

\* An option() whose callables have one list of options between them.
OptionWrapperShared(heap, func, opt) ==
    [f \in 1..Len(heap) |->
        IF f = func \/ heap[f].hasOpts
        THEN [heap[f] EXCEPT !.hasOpts = TRUE,
                             !.opts = Append(GetOpts(heap, f), opt),
                             !.ids = Append(@, NewId(heap))]
        ELSE heap[f]]

\* An option() that puts the new option first: opts.insert(0, ...).
OptionWrapperPrepend(heap, func, opt) ==
    [heap EXCEPT ![func] = [@ EXCEPT !.hasOpts = TRUE,
                                     !.opts = <<opt>> \o GetOpts(heap, func),
                                     !.ids = <<NewId(heap)>> \o @]]

\* An option() that starts a new list each time: func.opts = [TaskOption(...)].
OptionWrapperFresh(heap, func, opt) ==
    [heap EXCEPT ![func] = [@ EXCEPT !.hasOpts = TRUE,
                                     !.opts = <<opt>>,
                                     !.ids = <<NewId(heap)>>]]

\* taskm.option(*args, **kwargs)(func): append one TaskOption to func.opts,
\* creating the attribute on first use
OptionWrapper(heap, func, opt) ==
    LET opts == GetOpts(heap, func)
    IN [heap EXCEPT ![func] = [@ EXCEPT !.hasOpts = TRUE,
                                        !.opts = Append(opts, opt),
                                        !.ids = Append(@, NewId(heap))]]

\* A registration that stores a copy of the function object and returns the
\* original, so that later decorators act on an object the registry lacks.
ExecTaskCopy(st, name) ==
    LET copy == Len(st.heap) + 1
    IN [st EXCEPT !.heap = Append(st.heap, st.heap[st.cur]),
                  !.tasks = TaskWrapper(st.tasks, name, copy),
                  !.regLog = Append(st.regLog, <<name, copy>>)]

\* @taskm.task(name) applied to the current function; wrapper returns func
ExecTask(st, name) ==
    [st EXCEPT !.tasks = TaskWrapper(st.tasks, name, st.cur),
               !.regLog = Append(st.regLog, <<name, st.cur>>)]

\* @taskm.option(...) applied to the current function; wrapper returns func
ExecOption(st, opt) ==
    [st EXCEPT !.heap = OptionWrapper(st.heap, st.cur, opt),
               !.declLog = Append(st.declLog,
                      <<st.cur, opt, \E i \in 1..Len(st.regLog) : st.regLog[i][2] = st.cur>>)]

RECURSIVE ExecBody(_, _, _, _)
\* Execute statements i.. of a module body; a raise stops the execution and
\* leaves the effects of the statements before it in place.
ExecBody(st, mod, body, i) ==
    IF i > Len(body) THEN st
    ELSE LET s == body[i]
         IN CASE s.op = "def" -> ExecBody(ExecDef(st, mod), mod, body, i + 1)
              [] s.op = "task" -> ExecBody(ExecTask(st, s.name), mod, body, i + 1)
              [] s.op = "option" -> ExecBody(ExecOption(st, s.opt), mod, body, i + 1)
              [] s.op = "raise" -> [st EXCEPT !.raised = TRUE]

\* Importing a module that is not in sys.modules executes its body.
ImportModule(st, mod) == ExecBody([st EXCEPT !.raised = FALSE], mod, ModuleBody(mod), 1)

\* An entry point load that executes the module again although it is imported.
EpLoadAgain(st, mod, loaded) == ImportModule(st, mod)

\* ep.load(): imports the module the entry point names; a module that is in
\* sys.modules (loaded) is not executed again   (165)
EpLoad(st, mod, loaded) ==
    IF mod \in loaded THEN [st EXCEPT !.raised = FALSE] ELSE ImportModule(st, mod)

\* import_string('tasks.<stem>'): imports the module of that path; whether a
\* module that is imported already is executed again (again) is up to
\* import_string   (174)
ImportString(st, path, loaded, again) ==
    IF path \in loaded /\ ~again THEN [st EXCEPT !.raised = FALSE]
    ELSE ImportModule(st, path)

\* ------------------------------------------------ argparse, as run() uses it
\* Values a parsed option can have.
NoneVal == [type |-> "None", int |-> 0, bool |-> FALSE]
IntVal(n) == [type |-> "int", int |-> n, bool |-> FALSE]
BoolVal(b) == [type |-> "bool", int |-> 0, bool |-> b]
StrVal(t) == [type |-> "str:" \o t, int |-> 0, bool |-> FALSE]

\* ArgumentParser('seatask') adds the help option itself (add_help=True).
HelpFlags == {"-h", "--help"}

\* arg_string.startswith('-'): the token is taken for an option
StartsWithDash(t) == t \in {"--x", "--help", "-h", "--verbose"}

\* int(t) succeeds
IsIntLiteral(t) == t \in {"5"}

\* int(t)
IntOf(t) == CASE t = "5" -> 5 [] OTHER -> 0

\* the dest argparse derives from the first long option string
Dest(opt) ==
    CASE opt.args[1] = "--x" -> "x"
      [] opt.args[1] = "--verbose" -> "verbose"
      [] OTHER -> opt.args[1]

\* the option strings a parser with these options answers to
OptionStrings(popts) ==
    HelpFlags \cup UNION {Range(popts[i].args) : i \in 1..Len(popts)}

\* parser.add_argument(*opt.args, **opt.kwargs): an option string that is
\* already taken is a conflict (conflict_handler 'error')
AddArgument(p, opt) ==
    IF p.error # "" THEN p
    ELSE IF Range(opt.args) \cap OptionStrings(p.opts) # {}
         THEN [p EXCEPT !.error = "ArgumentError"]
         ELSE [p EXCEPT !.opts = Append(p.opts, opt)]

RECURSIVE AddArguments(_, _, _)
\* for opt in opts: parser.add_argument(...)   (192-193)
AddArguments(p, opts, i) ==
    IF i > Len(opts) THEN p
    ELSE AddArguments(AddArgument(p, opts[i]), opts, i + 1)

\* argparse.ArgumentParser('seatask')   (191)
NewParser == [opts |-> <<>>, error |-> ""]

\* the namespace before any token is read: every dest has its default
Defaults(popts) ==
    [d \in {Dest(popts[i]) : i \in 1..Len(popts)} |->
        LET o == CHOOSE o \in Range(popts) : Dest(o) = d
        IN IF o.kwargs.action = "store_true" THEN BoolVal(FALSE) ELSE NoneVal]

ParseOk(ns) == [kind |-> "ok", code |-> 0, msg |-> "", ns |-> ns]
ParseExit(code, msg) == [kind |-> "exit", code |-> code, msg |-> msg, ns |-> << >>]

\* type conversion of an option's value
Convert(opt, t) == IF opt.kwargs.type = "int" THEN IntVal(IntOf(t)) ELSE StrVal(t)

RECURSIVE Scan(_, _, _, _, _, _)
\* parse_args reads the tokens left to right: the help flag prints the help
\* and exits with status 0 at once; an option takes its value from the next
\* token; what no option takes is collected.  At the end a required option
\* that was not seen, then a collected token, is an error (status 2).
Scan(popts, toks, i, ns, seen, extras) ==
    IF i > Len(toks)
    THEN IF \E k \in 1..Len(popts) : popts[k].kwargs.required /\ Dest(popts[k]) \notin seen
         THEN ParseExit(2, "required")
         ELSE IF extras # <<>> THEN ParseExit(2, "unrecognized")
         ELSE ParseOk(ns)
    ELSE LET t == toks[i]
         IN IF t \in HelpFlags THEN ParseExit(0, "help")
            ELSE IF \E k \in 1..Len(popts) : t \in Range(popts[k].args)
            THEN LET o == popts[CHOOSE k \in 1..Len(popts) : t \in Range(popts[k].args)]
                     d == Dest(o)
                 IN IF o.kwargs.action = "store_true"
                    THEN Scan(popts, toks, i + 1, [ns EXCEPT ![d] = BoolVal(TRUE)],
                              seen \cup {d}, extras)
                    ELSE IF i + 1 > Len(toks) \/ StartsWithDash(toks[i + 1])
                    THEN ParseExit(2, "expected one argument")
                    ELSE IF o.kwargs.type = "int" /\ ~IsIntLiteral(toks[i + 1])
                    THEN ParseExit(2, "invalid value")
                    ELSE Scan(popts, toks, i + 2,
                              [ns EXCEPT ![d] = Convert(o, toks[i + 1])],
                              seen \cup {d}, extras)
            ELSE Scan(popts, toks, i + 1, ns, seen, Append(extras, t))

\* A parser that passes over the tokens no option takes (parse_known_args).
ParseKnownArgs(popts, toks) ==
    LET r == Scan(popts, toks, 1, Defaults(popts), {}, <<>>)
    IN IF r.msg = "unrecognized" THEN ParseOk(Defaults(popts)) ELSE r

\* A parser that does not insist on required options.
ParseArgsNoRequired(popts, toks) ==
    Scan([k \in 1..Len(popts) |-> [popts[k] EXCEPT !.kwargs.required = FALSE]],
         toks, 1, Defaults(popts), {}, <<>>)

\* parser.parse_args(extra)
ParseArgs(popts, toks) == Scan(popts, toks, 1, Defaults(popts), {}, <<>>)

\* ------------------------------------------------------------- the run
VARIABLES
    plugins,   \* pkg_resources.iter_entry_points('sea.tasks'): modules, in order
    listing,   \* os.listdir(<root>/tasks), in the order returned
    task,      \* args.task
    extra,     \* the leftover tokens handed to run()
    cmd,       \* the subcommand whose handler main() calls
    sysModules,\* sys.modules: the task modules imported successfully
    round,     \* 1, and 2 once the two loaders are being run a second time
    snap,      \* what the registry mapped each name to after the first round
    pc,        \* where run() is
    pi,        \* index of the next entry point to load
    ai,        \* index of the next directory entry
    tasks,     \* taskm.tasks
    heap,      \* the function objects and their opts attribute
    regLog,    \* history of registrations <<name, f>>
    declLog,   \* history of option declarations <<f, opt, registered already>>
    trace,     \* history of the steps of run(): the modules imported, in order,
               \* and "create_app", "lookup", "build_parser", "parse_args", "call"
    func,      \* the function object the lookup returned (0: none)
    parser,    \* the parser run() builds
    parsed,    \* what parse_args returned
    calls,     \* history of calls of task callables <<f, kwargs>>
    outcome,   \* what the callable did
    result     \* what run() did: returned a value or raised

vars == <<plugins, listing, task, extra, cmd, sysModules, round, snap, pc, pi, ai,
          tasks, heap, regLog, declLog,
          trace, func, parser, parsed, calls, outcome, result>>

env == <<plugins, listing, task, extra, cmd>>

NoResult == [kind |-> "none", val |-> ""]
Returned(v) == [kind |-> "return", val |-> v]
Raised(e) == [kind |-> "raise", val |-> e]

\* What a task callable can do when it is called.
Outcomes == {Returned("None"), Returned("value"), Raised("TaskError")}

\* The subcommands main() knows: the classes whose name ends in Cmd (203-206).
Commands == {"invoke", "server", "console", "new"}

\* Before the handler runs: the registry is empty (44), nothing is imported.
InitRest ==
    /\ sysModules = {}
    /\ round = 1
    /\ snap = EmptyTasks
    /\ pc = "run"
    /\ pi = 1
    /\ ai = 1
    /\ tasks = EmptyTasks
    /\ heap = <<>>
    /\ regLog = <<>>
    /\ declLog = <<>>
    /\ trace = <<>>
    /\ func = 0
    /\ parser = NewParser
    /\ parsed = ParseExit(0, "")
    /\ calls = <<>>
    /\ outcome = NoResult
    /\ result = NoResult

\* sea invoke <task> [extra...]
Init ==
    /\ cmd = "invoke"
    /\ plugins \in {q \in SeqsUpTo(PluginModules, MaxPlugins) : Distinct(q)}
    /\ listing \in {q \in SeqsUpTo(DirEntries, MaxFiles) : Distinct(q)}
    /\ task \in TaskNames
    /\ extra \in SeqsUpTo(Tokens, MaxExtra)
    /\ InitRest

\* The two loaders alone, over every kind of directory entry.
InitDiscovery ==
    /\ cmd = "invoke"
    /\ plugins \in {q \in SeqsUpTo(PluginModules, MaxPlugins) : Distinct(q)}
    /\ listing \in {q \in SeqsUpTo(DirEntries \cup OtherEntries, MaxFiles) : Distinct(q)}
    /\ task = "build"
    /\ extra = <<>>
    /\ InitRest

\* sea <subcommand> ... [extra...]: any of the subcommands.
InitCli ==
    /\ cmd \in Commands
    /\ IF cmd = "invoke"
       THEN /\ plugins \in {q \in SeqsUpTo(PluginModules, MaxPlugins) : Distinct(q)}
            /\ listing \in {q \in SeqsUpTo(DirEntries, MaxFiles) : Distinct(q)}
            /\ task \in TaskNames
       ELSE /\ plugins = <<>>
            /\ listing = <<>>
            /\ task = ""
    /\ extra \in SeqsUpTo(Tokens, MaxExtra)
    /\ InitRest

Registry == [tasks |-> tasks, heap |-> heap, cur |-> 0, regLog |-> regLog,
             declLog |-> declLog, raised |-> FALSE]

\* A discovery that goes on to the next step after a module failed to load.
LoadContinue(st, mod, next) ==
    /\ tasks' = st.tasks
    /\ heap' = st.heap
    /\ regLog' = st.regLog
    /\ declLog' = st.declLog
    /\ trace' = Append(trace, mod)
    /\ sysModules' = IF st.raised THEN sysModules ELSE sysModules \cup {mod}
    /\ pc' = next
    /\ result' = result

\* The effect on the variables of one import that left the registry as st.
\* Neither loader catches an exception (165, 174) and neither does run()
\* (186, 187): an error in the module ends run().  A module that failed is
\* not kept in sys.modules.
Load(st, mod, next) ==
    /\ tasks' = st.tasks
    /\ heap' = st.heap
    /\ regLog' = st.regLog
    /\ declLog' = st.declLog
    /\ trace' = Append(trace, mod)
    /\ sysModules' = IF st.raised THEN sysModules ELSE sysModules \cup {mod}
    /\ IF st.raised
       THEN /\ pc' = "failed"
            /\ result' = Raised("LoadError")
       ELSE /\ pc' = next
            /\ result' = result

\* A run() that loads the application's tasks before the plugins.
RunOrderAppFirst == <<"app", "plugins", "lookup">>

\* The order of the statements of run() after create_app: 186, 187, 189.
RunOrder == <<"plugins", "app", "lookup">>

\* the statement after stage s
Following(s) == RunOrder[(CHOOSE i \in 1..Len(RunOrder) : RunOrder[i] = s) + 1]

\* app = create_app(args.workdir)   (185)
CreateApp ==
    /\ cmd = "invoke"
    /\ pc = "run"
    /\ pc' = RunOrder[1]
    /\ trace' = Append(trace, "create_app")
    /\ UNCHANGED <<env, round, snap, sysModules,
                   pi, ai, tasks, heap, regLog, declLog, func, parser,
                   parsed, calls, outcome, result>>

\* one turn of the loop of _load_plugin_tasks: ep.load()   (164-165)
LoadPlugin ==
    /\ pc = "plugins"
    /\ pi <= Len(plugins)
    /\ Load(EpLoad(Registry, plugins[pi], sysModules), plugins[pi], "plugins")
    /\ pi' = pi + 1
    /\ UNCHANGED <<env, round, snap, ai, func, parser, parsed, calls, outcome>>

\* _load_plugin_tasks returns True   (166)
PluginsDone ==
    /\ pc = "plugins"
    /\ pi > Len(plugins)
    /\ pc' = Following("plugins")
    /\ UNCHANGED <<env, round, snap, sysModules,
                   pi, ai, tasks, heap, regLog, declLog, trace, func, parser,
                   parsed, calls, outcome, result>>

\* A filter that does not ask whether the entry is a regular file.
IsTaskFileByName(m) == m # "__init__.py" /\ EndsWithPy(m)

\* the test of 171-173
IsTaskFile(m) == m # "__init__.py" /\ EndsWithPy(m) /\ IsFile(m)

\* one turn of the loop of _load_app_tasks on an entry that is imported (170-174)
ImportAppTask ==
    /\ pc = "app"
    /\ ai <= Len(listing)
    /\ IsTaskFile(listing[ai])
    /\ \E again \in IF ModulePath(listing[ai]) \in sysModules THEN BOOLEAN ELSE {TRUE} :
          Load(ImportString(Registry, ModulePath(listing[ai]), sysModules, again),
               ModulePath(listing[ai]), "app")
    /\ ai' = ai + 1
    /\ UNCHANGED <<env, round, snap, pi, func, parser, parsed, calls, outcome>>

\* one turn of the loop of _load_app_tasks on an entry that is passed over
SkipEntry ==
    /\ pc = "app"
    /\ ai <= Len(listing)
    /\ ~IsTaskFile(listing[ai])
    /\ ai' = ai + 1
    /\ UNCHANGED <<env, round, snap, sysModules,
                   pc, pi, tasks, heap, regLog, declLog, trace, func, parser,
                   parsed, calls, outcome, result>>

\* _load_app_tasks returns True   (175)
AppTasksDone ==
    /\ pc = "app"
    /\ ai > Len(listing)
    /\ pc' = Following("app")
    /\ UNCHANGED <<env, round, snap, sysModules,
                   pi, ai, tasks, heap, regLog, declLog, trace, func, parser,
                   parsed, calls, outcome, result>>

\* A lookup that falls back to the first function defined when the name is absent.
GetItemFallback(t, name) ==
    IF name \in DOMAIN t THEN t[name] ELSE IF Len(heap) > 0 THEN 1 ELSE 0

\* taskm[name]: self.tasks[name]; 0 stands for the KeyError of an absent name (40-41)
GetItem(t, name) == IF name \in DOMAIN t THEN t[name] ELSE 0

\* func = taskm[args.task]   (189)
Lookup ==
    /\ pc = "lookup"
    /\ func' = GetItem(tasks, task)
    /\ trace' = Append(trace, "lookup")
    /\ IF func' = 0
       THEN /\ pc' = "failed"
            /\ result' = Raised("KeyError")
       ELSE /\ pc' = "build"
            /\ result' = result
    /\ UNCHANGED <<env, round, snap, sysModules,
                   pi, ai, tasks, heap, regLog, declLog, parser, parsed,
                   calls, outcome>>

\* opts = getattr(func, 'opts', []) and the parser built from them (190-193)
BuildParser ==
    /\ pc = "build"
    /\ parser' = AddArguments(NewParser, GetOpts(heap, func), 1)
    /\ trace' = Append(trace, "build_parser")
    /\ IF parser'.error # ""
       THEN /\ pc' = "failed"
            /\ result' = Raised(parser'.error)
       ELSE /\ pc' = "parse"
            /\ result' = result
    /\ UNCHANGED <<env, round, snap, sysModules,
                   pi, ai, tasks, heap, regLog, declLog, func, parsed,
                   calls, outcome>>

\* A run() that calls the task whatever the parser said.
AfterParseAlwaysCall(p) == "call"

\* parse_args ends the process (SystemExit) unless it returns a namespace (194)
AfterParse(p) == IF p.kind = "exit" THEN "failed" ELSE "call"

\* parser.parse_args(extra)   (194)
Parse ==
    /\ pc = "parse"
    /\ parsed' = ParseArgs(parser.opts, extra)
    /\ trace' = Append(trace, "parse_args")
    /\ pc' = AfterParse(parsed')
    /\ result' = IF parsed'.kind = "exit"
                 THEN Raised(IF parsed'.code = 0 THEN "SystemExit0" ELSE "SystemExit2")
                 ELSE result
    /\ UNCHANGED <<env, round, snap, sysModules,
                   pi, ai, tasks, heap, regLog, declLog, func, parser,
                   calls, outcome>>

\* A dispatcher that reports every error of a task as an error of its own.
RunResultWrapped(out) == IF out.kind = "raise" THEN Raised("DispatchError") ELSE out

\* return func(...): the value is returned as it is, an exception propagates (194)
RunResult(out) == out

\* func(**vars(namespace)) and the return of run()   (194)
Call ==
    /\ pc = "call"
    /\ \E out \in Outcomes :
          /\ outcome' = out
          /\ result' = RunResult(out)
    /\ calls' = Append(calls, <<func, parsed.ns>>)
    /\ trace' = Append(trace, "call")
    /\ pc' = "done"
    /\ UNCHANGED <<env, round, snap, sysModules,
                   pi, ai, tasks, heap, regLog, declLog, func, parser, parsed>>

\* What the registry maps each name to: the module that defined the callable
\* and the callable's options.
View == [n \in DOMAIN tasks |-> <<heap[tasks[n]].origin, GetOpts(heap, tasks[n])>>]

\* The two loaders are run a second time in the same process, in the order
\* of run() (186-187), after the first round ended or failed.
Reload ==
    /\ round = 1
    /\ pc \in {"lookup", "failed"}
    /\ round' = 2
    /\ snap' = View
    /\ pi' = 1
    /\ ai' = 1
    /\ pc' = RunOrder[1]
    /\ result' = NoResult
    /\ trace' = Append(trace, "again")
    /\ UNCHANGED <<env, sysModules, tasks, heap, regLog, declLog, func, parser, parsed,
                   calls, outcome>>

\* A handler that accepts leftover tokens.
RejectsExtraNever(e) == FALSE

\* if extra: raise ValueError   (68-69, 82-83, 151-152)
RejectsExtra(e) == e # <<>>

\* What a handler other than invoke does: nothing but the ValueError when
\* tokens are left over, else the steps given (recorded in trace).
Handler(steps) ==
    /\ pc = "run"
    /\ IF RejectsExtra(extra)
       THEN /\ pc' = "failed"
            /\ result' = Raised("ValueError")
            /\ trace' = trace
       ELSE /\ pc' = "exited"
            /\ result' = Returned("value")
            /\ trace' = trace \o steps
    /\ UNCHANGED <<env, round, snap, sysModules, pi, ai, tasks, heap, regLog, declLog,
                   func, parser, parsed, calls, outcome>>

\* ServerCmd.run: create_app, Server(app, args.host).run()   (67-72)
ServerRun == cmd = "server" /\ Handler(<<"create_app", "server_run">>)

\* ConsoleCmd.run: create_app, then the console   (81-95)
ConsoleRun == cmd = "console" /\ Handler(<<"create_app", "console">>)

\* NewCmd.run: _gen_project   (150-157)
NewRun == cmd = "new" /\ Handler(<<"gen_project">>)

Next ==
    \/ CreateApp
    \/ LoadPlugin
    \/ PluginsDone
    \/ ImportAppTask
    \/ SkipEntry
    \/ AppTasksDone
    \/ Lookup
    \/ BuildParser
    \/ Parse
    \/ Call

Spec == Init /\ [][Next]_vars

NextDiscovery ==
    \/ CreateApp
    \/ LoadPlugin
    \/ PluginsDone
    \/ ImportAppTask
    \/ SkipEntry
    \/ AppTasksDone
    \/ Reload

\* the discovery of run(), done twice in one process
SpecDiscovery == InitDiscovery /\ [][NextDiscovery]_vars

NextCli ==
    \/ Next
    \/ ServerRun
    \/ ConsoleRun
    \/ NewRun

\* main(): the handler of any subcommand
SpecCli == InitCli /\ [][NextCli]_vars

\* ------------------------------------------------ what the histories say
Has(step) == \E i \in 1..Len(trace) : trace[i] = step

RegisteredNames == {regLog[i][1] : i \in 1..Len(regLog)}

\* the function object of the most recent registration of name n
LastReg(n) ==
    LET idx == {i \in 1..Len(regLog) : regLog[i][1] = n}
    IN regLog[CHOOSE i \in idx : \A j \in idx : j <= i][2]

\* the options declared on function object f, in the order of their declaration
DeclaredOn(f) ==
    LET OnF(e) == e[1] = f
        sel == SelectSeq(declLog, OnF)
    IN [i \in 1..Len(sel) |-> sel[i][2]]

AppModules == {ModulePath(m) : m \in DirEntries}

\* the module has a load-time error
Raises(mod) == \E i \in 1..Len(ModuleBody(mod)) : ModuleBody(mod)[i].op = "raise"

\* a module of the kind given registered name n during this run
RegisteredFrom(n, mods) ==
    \E i \in 1..Len(regLog) : regLog[i][1] = n /\ heap[regLog[i][2]].origin \in mods

\* run() built a parser without an error
ParserBuilt == Has("build_parser") /\ parser.error = ""

\* ------------------------------------------------------------------ claims

\* C1: a name registered more than once has exactly one entry, the callable of
\* the most recent registration; re-registering raises nothing; the parser built
\* when the name is dispatched holds the options of that last callable only.
C1_LastRegistrationWins ==
    /\ DOMAIN tasks = RegisteredNames
    /\ \A n \in RegisteredNames : tasks[n] = LastReg(n)
    /\ (result = Raised("LoadError") => Raises(trace[Len(trace)]))
    /\ (Has("lookup") /\ task \in RegisteredNames => func = LastReg(task))
    /\ (ParserBuilt => parser.opts = DeclaredOn(LastReg(task)))

\* C1 witness: the dispatched name was registered twice, by callables with
\* different options, and the task has been called with the second's parser.
C1_Witness ==
    /\ pc = "done"
    /\ \E i, j \in 1..Len(regLog) :
          /\ i < j
          /\ regLog[i][1] = task
          /\ regLog[j][1] = task
          /\ GetOpts(heap, regLog[i][2]) # GetOpts(heap, regLog[j][2])
          /\ GetOpts(heap, regLog[i][2]) # <<>>
          /\ parser.opts = GetOpts(heap, regLog[j][2])

\* C2: when a plugin and an application task file both register a name, then
\* after the plugin load and the application load the name maps to the
\* application's callable, and that is the callable run() calls.
C2_AppTaskOverridesPlugin ==
    Has("lookup") =>
        /\ \A n \in DOMAIN tasks :
              RegisteredFrom(n, PluginModules) /\ RegisteredFrom(n, AppModules)
                  => heap[tasks[n]].origin \in AppModules
        /\ RegisteredFrom(task, PluginModules) /\ RegisteredFrom(task, AppModules)
              => /\ func # 0
                 /\ heap[func].origin \in AppModules
                 /\ \A i \in 1..Len(calls) : heap[calls[i][1]].origin \in AppModules

\* C2 witness: "build" registered by the plugin and by tasks/build.py, dispatched
\* and called.
C2_Witness ==
    /\ pc = "done"
    /\ task = "build"
    /\ Has("plug_build")
    /\ Has("tasks.build")
    /\ heap[calls[1][1]].origin = "tasks.build"

\* C3: a name absent from the registry after discovery fails the lookup with
\* the not-found error; no parser is built, nothing is parsed, nothing is called.
C3_MissingTaskNotFound ==
    Has("lookup") /\ task \notin DOMAIN tasks =>
        /\ pc = "failed"
        /\ result = Raised("KeyError")
        /\ func = 0
        /\ ~Has("build_parser")
        /\ ~Has("parse_args")
        /\ ~Has("call")
        /\ parser = NewParser
        /\ calls = <<>>

\* C3 witness: tasks are registered, the requested one is not, tokens were given.
C3_Witness ==
    /\ pc = "failed"
    /\ result = Raised("KeyError")
    /\ DOMAIN tasks # {}
    /\ extra # <<>>

\* C4: the resolved callable is called exactly once when lookup and parsing
\* succeed, never when discovery, lookup, parser construction or parsing
\* fails; no other callable is called and none is called twice.
C4_CalledExactlyOnce ==
    /\ Len(calls) <= 1
    /\ \A i \in 1..Len(calls) : calls[i][1] = func /\ func = tasks[task]
    /\ (pc = "done" => /\ Len(calls) = 1
                       /\ ParserBuilt
                       /\ Has("parse_args")
                       /\ parsed.kind = "ok")
    /\ (pc # "done" => calls = <<>>)
    /\ (pc = "failed" => \/ result = Raised("LoadError")
                         \/ result = Raised("KeyError")
                         \/ result = Raised("ArgumentError") /\ parser.error # ""
                         \/ Has("parse_args") /\ parsed.kind = "exit")

\* C4 witness: a run that called the task once.
C4_Witness == pc = "done" /\ Len(calls) = 1 /\ calls[1][1] = tasks[task]

\* C5: for a task with the single option --x (int, required), the tokens
\* --x 5 give a call with x = 5, and no tokens give a parse failure and no call.
C5_RequiredIntOption ==
    Has("parse_args") /\ GetOpts(heap, func) = <<OptX>> =>
        /\ extra = <<"--x", "5">> =>
              /\ pc \in {"call", "done"}
              /\ parsed.ns = [d \in {"x"} |-> IntVal(5)]
              /\ (pc = "done" => calls = << <<func, [d \in {"x"} |-> IntVal(5)]>> >>)
        /\ extra = <<>> =>
              /\ pc = "failed"
              /\ result = Raised("SystemExit2")
              /\ parsed.msg = "required"
              /\ calls = <<>>

\* C5 witness: the task with --x was called with x = 5.
C5_Witness ==
    /\ pc = "done"
    /\ GetOpts(heap, func) = <<OptX>>
    /\ extra = <<"--x", "5">>
    /\ calls[1][2]["x"] = IntVal(5)

\* the alphabetical position of a directory entry ('_' sorts before a letter)
AlphaRank(m) ==
    CASE m = "__init__.py" -> 1
      [] m = "bad.py" -> 2
      [] m = "build.py" -> 3
      [] m = "deploy.py" -> 4

\* no function object defined by module mod exists, so none is registered
NothingFrom(mod) == \A f \in 1..Len(heap) : heap[f].origin # mod

C7_Original ==
    \A b, g \in Range(listing) :
        /\ IsTaskFile(b) /\ Raises(ModulePath(b)) /\ Has(ModulePath(b))
        /\ IsTaskFile(g) /\ AlphaRank(b) < AlphaRank(g)
        => ~Has(ModulePath(g)) /\ NothingFrom(ModulePath(g))

\* C7 (amended): a task file that fails to load ends the application load
\* with that error, and no task file after it in the order of the directory
\* listing is loaded: nothing such a file defines is in the registry.
C7_FailFastAppLoad ==
    \A i \in 1..Len(listing) :
        IsTaskFile(listing[i]) /\ Raises(ModulePath(listing[i]))
                               /\ Has(ModulePath(listing[i])) =>
            /\ pc = "failed"
            /\ result = Raised("LoadError")
            /\ trace[Len(trace)] = ModulePath(listing[i])
            /\ ai = i + 1
            /\ \A j \in (i + 1)..Len(listing) :
                  /\ ~Has(ModulePath(listing[j]))
                  /\ NothingFrom(ModulePath(listing[j]))

\* C7 witness: the failing file is listed first and a task file follows it.
C7_Witness ==
    /\ pc = "failed"
    /\ Len(listing) >= 2
    /\ Raises(ModulePath(listing[1]))
    /\ Has(ModulePath(listing[1]))
    /\ IsTaskFile(listing[2])
    /\ ~Raises(ModulePath(listing[2]))

\* C8: a module that fails to load ends run() at once: it is the last step of
\* the run, no lookup, parser, parse or call follows, and after a plugin's
\* failure no further plugin and no application task file is loaded.
C8_DiscoveryFailureAborts ==
    \A i \in 1..Len(trace) :
        Raises(trace[i]) =>
            /\ i = Len(trace)
            /\ pc = "failed"
            /\ result = Raised("LoadError")
            /\ func = 0
            /\ parser = NewParser
            /\ calls = <<>>
            /\ trace[i] \in PluginModules =>
                  /\ plugins[pi - 1] = trace[i]
                  /\ ai = 1
                  /\ \A k \in 1..Len(trace) : trace[k] \notin AppModules

\* C8 witness: a plugin failed while another plugin and a task file were
\* still to be loaded.
C8_Witness ==
    /\ pc = "failed"
    /\ trace[Len(trace)] = "plug_bad"
    /\ pi <= Len(plugins)
    /\ \E j \in 1..Len(listing) : IsTaskFile(listing[j])

\* C9: once the callable has been called, what run() returns or raises is
\* what the callable returned or raised, nothing else.
C9_OutcomeIsCallablesOutcome ==
    Has("call") => outcome \in Outcomes /\ result = outcome

\* C9 witness: the callable raised and run() raised that error.
C9_Witness ==
    /\ pc = "done"
    /\ outcome = Raised("TaskError")
    /\ result = Raised("TaskError")

\* C10: the options a registered callable carries, and the options the
\* parser is built from at dispatch, are all the options declared on it,
\* those declared before it was registered and those declared after.
C10_RegistrationCommutesWithOptions ==
    /\ \A n \in DOMAIN tasks : GetOpts(heap, tasks[n]) = DeclaredOn(tasks[n])
    /\ (ParserBuilt => parser.opts = DeclaredOn(func))

\* C10 witness: the dispatched callable has an option that was declared after
\* its registration, and the parser has it.
C10_Witness ==
    /\ pc = "done"
    /\ \E k \in 1..Len(declLog) :
          /\ declLog[k][1] = func
          /\ declLog[k][3]
          /\ declLog[k][2] \in Range(parser.opts)

\* the TaskOption objects in the list f.opts
Ids(f) == Range(heap[f].ids)

\* C11 as stated: no option descriptor belongs to the option sequences of two
\* different registered names, also when one callable has several names.
C11_Original ==
    \A n, m \in DOMAIN tasks : n # m => Ids(tasks[n]) \cap Ids(tasks[m]) = {}

\* C11: an option descriptor belongs to the list of one callable only; two
\* registered names have a descriptor in common only when they name the same
\* callable, and then they have the whole list in common.
C11_OwnedByCallable ==
    /\ \A f, g \in 1..Len(heap) : f # g => Ids(f) \cap Ids(g) = {}
    /\ \A f \in 1..Len(heap) :
          /\ Len(heap[f].ids) = Len(GetOpts(heap, f))
          /\ Distinct(heap[f].ids)
    /\ \A n, m \in DOMAIN tasks :
          Ids(tasks[n]) \cap Ids(tasks[m]) # {} => tasks[n] = tasks[m]

\* C11 witness: one callable with options has two names, and another callable
\* declared the same option.
C11_Witness ==
    /\ {"build", "rebuild"} \subseteq DOMAIN tasks
    /\ tasks["build"] = tasks["rebuild"]
    /\ Ids(tasks["build"]) # {}
    /\ \E g \in 1..Len(heap) :
          /\ g # tasks["build"]
          /\ OptX \in Range(GetOpts(heap, g))

\* the statements of a module that run when it is imported: those before its
\* first raise
StmtsRun(mod) ==
    LET body == ModuleBody(mod)
    IN {k \in 1..Len(body) : \A j \in 1..k : body[j].op # "raise"}

RECURSIVE OptionStmtsRun(_)
\* the number of option declarations the first i steps of the run executed
OptionStmtsRun(i) ==
    IF i = 0 THEN 0
    ELSE OptionStmtsRun(i - 1)
         + Cardinality({k \in StmtsRun(trace[i]) : ModuleBody(trace[i])[k].op = "option"})

RECURSIVE DescriptorsHeld(_)
\* the number of descriptors the first f function objects hold
DescriptorsHeld(f) ==
    IF f = 0 THEN 0 ELSE DescriptorsHeld(f - 1) + Len(GetOpts(heap, f))

\* add_argument refuses the options: two of them have an option string in
\* common, or one has an option string of the help option
HasClash(opts) ==
    \/ \E i, j \in 1..Len(opts) : i < j /\ Range(opts[i].args) \cap Range(opts[j].args) # {}
    \/ \E i \in 1..Len(opts) : Range(opts[i].args) \cap HelpFlags # {}

\* C12: every option declaration that is executed is accepted, whatever it
\* says; options that argparse refuses fail the construction of the parser of
\* the task that has them, after the lookup and before parsing and the call,
\* and nowhere else; a task whose own options are accepted gets its parser.
C12_NoValidationAtDeclaration ==
    /\ DescriptorsHeld(Len(heap)) = OptionStmtsRun(Len(trace))
    /\ Len(declLog) = OptionStmtsRun(Len(trace))
    /\ (result = Raised("ArgumentError") =>
            Has("build_parser") /\ func # 0 /\ HasClash(DeclaredOn(func)))
    /\ (Has("build_parser") =>
          /\ Has("lookup")
          /\ func = tasks[task]
          /\ IF HasClash(DeclaredOn(func))
             THEN /\ pc = "failed"
                  /\ result = Raised("ArgumentError")
                  /\ ~Has("parse_args")
                  /\ calls = <<>>
             ELSE /\ parser.error = ""
                  /\ result # Raised("ArgumentError"))

\* C12 witness: the task dispatched declared --x twice and its parser could
\* not be built, while a task without such options is registered too.
C12_Witness ==
    /\ pc = "failed"
    /\ result = Raised("ArgumentError")
    /\ task = "dup"
    /\ DeclaredOn(func) = <<OptX, OptX>>
    /\ "deploy" \in DOMAIN tasks

\* options a task module can declare
Declarable == {OptX, OptVerbose}

\* C13: in every state the discovery reaches, an option declared on a callable
\* adds the option to that callable's list and changes nothing else: not the
\* mapping from names to callables, not the registrations made, not the list
\* or any other attribute of another callable, and no callable is created.
C13_DeclarationFrame ==
    \A f \in 1..Len(heap) : \A opt \in Declarable :
        LET before == [Registry EXCEPT !.cur = f]
            after == ExecOption(before, opt)
        IN /\ after.tasks = tasks
           /\ DOMAIN after.tasks = DOMAIN tasks
           /\ after.regLog = regLog
           /\ after.cur = f
           /\ after.raised = FALSE
           /\ Len(after.heap) = Len(heap)
           /\ \A g \in 1..Len(heap) : g # f => after.heap[g] = heap[g]
           /\ after.heap[f].origin = heap[f].origin
           /\ GetOpts(after.heap, f) = Append(GetOpts(heap, f), opt)

\* C13 witness: declarations were made on a callable that has options while
\* another callable with options of its own and two registered names exist.
C13_Witness ==
    /\ \E f, g \in 1..Len(heap) :
          /\ f # g
          /\ GetOpts(heap, f) = <<OptX, OptVerbose>>
          /\ GetOpts(heap, g) = <<OptX>>
          /\ \E n \in DOMAIN tasks : tasks[n] = f
    /\ Cardinality(DOMAIN tasks) >= 2

\* the second run of the two loaders is over
SecondRoundOver == round = 2 /\ pc \in {"lookup", "failed"}

\* C14: when the plugin load and the application load have been run a second
\* time, the registry has the names it had after the first run, each mapped to
\* a callable of the same module with the same options; a registration the
\* second run repeats replaces the entry without an error.
C14_DiscoveryIdempotent ==
    SecondRoundOver =>
        /\ DOMAIN tasks = DOMAIN snap
        /\ \A n \in DOMAIN tasks :
              /\ heap[tasks[n]].origin = snap[n][1]
              /\ GetOpts(heap, tasks[n]) = snap[n][2]
        /\ (pc = "failed" => result = Raised("LoadError") /\ Raises(trace[Len(trace)]))

\* C14 witness: the second run executed a module again, which registered the
\* names it had registered before, and ended with two names or more.
C14_Witness ==
    /\ SecondRoundOver
    /\ pc = "lookup"
    /\ Cardinality(DOMAIN tasks) >= 2
    /\ \E i, j \in 1..Len(regLog) :
          /\ i < j
          /\ regLog[i][1] = regLog[j][1]
          /\ heap[regLog[i][2]].origin = heap[regLog[j][2]].origin

\* C15: no step of a run takes a name out of the registry: an import can only
\* add names or replace entries, and the lookup, the construction of the
\* parser, the parsing and the call leave the registry as it is, also when
\* they fail.
C15_NamesNeverRemoved ==
    [][/\ DOMAIN tasks \subseteq DOMAIN tasks'
       /\ (pc \in {"lookup", "build", "parse", "call"} => tasks' = tasks)]_vars

\* C15 witness: a dispatch failed after the lookup with three names registered.
C15_Witness ==
    /\ pc = "failed"
    /\ Has("lookup")
    /\ Has("build_parser")
    /\ Cardinality(DOMAIN tasks) >= 3
    /\ RegisteredNames = DOMAIN tasks

\* the place of a step in the body of run(), counted from 1
Stage(e) ==
    CASE e = "create_app" -> 1
      [] e \in PluginModules -> 2
      [] e \in AppModules -> 3
      [] e = "lookup" -> 4
      [] e = "build_parser" -> 5
      [] e = "parse_args" -> 6
      [] e = "call" -> 7
      [] OTHER -> 0

\* the steps of the run so far that are of the stage given
StepsOf(stage) ==
    LET InStage(e) == Stage(e) = stage
    IN SelectSeq(trace, InStage)

\* q starts with p
IsPrefix(p, q) == Len(p) <= Len(q) /\ \A i \in 1..Len(p) : p[i] = q[i]

\* C16: the steps of a run come in the order: application handle, plugin
\* loads, application imports, lookup, parser construction, parsing, call;
\* each but the loads at most once; the loads follow the entry points and the
\* directory listing; and when the lookup reads the registry, every plugin and
\* every task file has been loaded.
C16_FixedOrder ==
    /\ (trace # <<>> => trace[1] = "create_app")
    /\ \A i, j \in 1..Len(trace) :
          i < j => /\ Stage(trace[i]) # 0
                   /\ Stage(trace[i]) <= Stage(trace[j])
                   /\ (Stage(trace[i]) = Stage(trace[j]) => Stage(trace[i]) \in {2, 3})
    /\ IsPrefix(StepsOf(2), plugins)
    /\ IsPrefix(StepsOf(3), [k \in 1..Len(SelectSeq(listing, IsTaskFile)) |->
                                  ModulePath(SelectSeq(listing, IsTaskFile)[k])])
    /\ (Has("lookup") =>
          /\ StepsOf(2) = plugins
          /\ Len(StepsOf(3)) = Len(SelectSeq(listing, IsTaskFile))
          /\ pi > Len(plugins)
          /\ ai > Len(listing))
    /\ (pc = "done" => \A e \in {"create_app", "lookup", "build_parser", "parse_args", "call"} :
                          Has(e))

\* C16 witness: a run with a plugin and two task files that called the task.
C16_Witness ==
    /\ pc = "done"
    /\ Len(StepsOf(2)) >= 1
    /\ Len(StepsOf(3)) = 2
    /\ trace[Len(trace)] = "call"

\* the decorated definition that made function object f, as the module has it
ItemOf(f) ==
    LET text == ModuleText(heap[f].origin)
    IN text[CHOOSE k \in 1..Len(text) :
                \E i \in 1..Len(regLog) :
                    regLog[i][2] = f /\ StTask(regLog[i][1]) \in Range(text[k])]

\* the options of the option decorators of f, top to bottom
TextualOptions(f) ==
    LET IsOptionSt(st) == st.op = "option"
        decos == SelectSeq(ItemOf(f), IsOptionSt)
    IN [i \in 1..Len(decos) |-> decos[i].opt]

\* C17: the parser built at dispatch has every descriptor of the resolved
\* callable once, in the order of the callable's list, which is the order in
\* which the declarations were applied to it: for stacked decorators, the
\* reverse of their order in the source.
C17_ParserOrder ==
    ParserBuilt =>
        /\ Len(parser.opts) = Len(heap[func].ids)
        /\ \A i \in 1..Len(parser.opts) : parser.opts[i] = GetOpts(heap, func)[i]
        /\ LET OnFunc(e) == e[1] = func
               applied == SelectSeq(declLog, OnFunc)
           IN /\ Len(applied) = Len(parser.opts)
              /\ \A i \in 1..Len(applied) : applied[i][2] = parser.opts[i]
        /\ parser.opts = Reverse(TextualOptions(func))

\* C17 witness: the task decorated with --verbose above --x was dispatched and
\* its parser has --x, then --verbose.
C17_Witness ==
    /\ ParserBuilt
    /\ task = "build"
    /\ TextualOptions(func) = <<OptVerbose, OptX>>
    /\ parser.opts = <<OptX, OptVerbose>>

\* the steps of the current run of the loaders
RoundTrace ==
    LET marks == {i \in 1..Len(trace) : trace[i] = "again"}
        start == IF marks = {} THEN 0 ELSE CHOOSE i \in marks : \A j \in marks : j <= i
    IN SubSeq(trace, start + 1, Len(trace))

\* the module paths import_string was called with in the current run
AppImports ==
    LET IsAppPath(e) == e \in {ModulePath(m) : m \in DirEntries \cup OtherEntries}
    IN SelectSeq(RoundTrace, IsAppPath)

\* C18: a call of the application load imports tasks.<stem> for the entries
\* of the listing that are regular files, end in .py and are not __init__.py,
\* once each, and imports nothing for any other entry: when it returns,
\* the modules imported are exactly those.
C18_ImportsTaskFilesOnly ==
    /\ Distinct(AppImports)
    /\ \A k \in 1..Len(AppImports) :
          \E j \in 1..Len(listing) :
              /\ AppImports[k] = ModulePath(listing[j])
              /\ IsFile(listing[j])
              /\ EndsWithPy(listing[j])
              /\ listing[j] # "__init__.py"
    /\ \A m \in {"pkg.py", "notes.txt", "__init__.py"} :
          /\ ~Has(ModulePath(m))
          /\ NothingFrom(ModulePath(m))
          /\ ModulePath(m) \notin sysModules
    /\ "pkg" \notin DOMAIN tasks
    /\ (pc = "lookup" =>
          Range(AppImports) =
              {ModulePath(m) : m \in {e \in Range(listing) :
                                         IsFile(e) /\ EndsWithPy(e) /\ e # "__init__.py"}})

\* C18 witness: the load returned for a directory with a task file and a
\* subdirectory whose name ends in .py, having imported the task file.
C18_Witness ==
    /\ pc = "lookup"
    /\ "pkg.py" \in Range(listing)
    /\ "build.py" \in Range(listing)
    /\ AppImports = <<"tasks.build">>

\* C19: a step only ever adds to the end of a callable's descriptor list: the
\* descriptors a callable has stay, in place and the same objects, whatever is
\* registered, looked up or dispatched; each declaration adds one descriptor,
\* so that a list is the declarations made on its callable, in order; and a
\* name registered after further declarations has the earlier ones too.
C19_AppendOnly ==
    [][/\ Len(heap) <= Len(heap')
       /\ \A f \in 1..Len(heap) :
             /\ IsPrefix(GetOpts(heap, f), GetOpts(heap', f))
             /\ IsPrefix(heap[f].ids, heap'[f].ids)
             /\ heap'[f].origin = heap[f].origin
       /\ (pc \in {"lookup", "build", "parse", "call"} => heap' = heap /\ declLog' = declLog)
       /\ DescriptorsHeld(Len(heap))' - DescriptorsHeld(Len(heap)) = Len(declLog') - Len(declLog)
       /\ \A f \in 1..Len(heap') :
             /\ GetOpts(heap', f) = DeclaredOn(f)'
             /\ heap'[f].hasOpts = (DeclaredOn(f)' # <<>>)
       /\ \A n \in DOMAIN tasks' : \A k \in 1..Len(declLog') :
             declLog'[k][1] = tasks'[n] => declLog'[k][2] \in Range(GetOpts(heap', tasks'[n]))]_vars

\* C19 witness: a callable was registered as "build", given a further option,
\* registered as "rebuild", and "build" was dispatched and called: both names
\* have the two options.
C19_Witness ==
    /\ pc = "done"
    /\ task = "build"
    /\ "rebuild" \in DOMAIN tasks
    /\ GetOpts(heap, tasks["rebuild"]) = <<OptX, OptVerbose>>
    /\ GetOpts(heap, tasks["build"]) = <<OptX, OptVerbose>>
    /\ \E k \in 1..Len(declLog) : declLog[k][1] = tasks["rebuild"] /\ declLog[k][3]

\* what a handler other than invoke does when it is given no leftover tokens
ActionsOf(c) ==
    CASE c = "server" -> <<"create_app", "server_run">>
      [] c = "console" -> <<"create_app", "console">>
      [] c = "new" -> <<"gen_project">>
      [] OTHER -> <<>>

\* C20: the handlers of new, server and console fail with an error when
\* tokens are left over, having done nothing: no application handle, no
\* server, no console, no project; without leftover tokens they do their
\* work.  The invoke handler never fails for leftover tokens as such: it
\* hands the parser of the task the tokens as they are.
C20_LeftoverTokens ==
    /\ (cmd # "invoke" /\ pc # "run" =>
          IF extra # <<>>
          THEN /\ pc = "failed"
               /\ result = Raised("ValueError")
               /\ trace = <<>>
               /\ ~Has("create_app")
               /\ tasks = EmptyTasks
               /\ calls = <<>>
          ELSE /\ pc = "exited"
               /\ result \in Outcomes
               /\ trace = ActionsOf(cmd))
    /\ (cmd = "invoke" =>
          /\ result # Raised("ValueError")
          /\ pc # "exited"
          /\ (pc # "run" => Has("create_app"))
          /\ (Has("parse_args") => parsed = ParseArgs(GetOpts(heap, func), extra)))

\* C20 witness: new was given two leftover tokens and failed.
C20_Witness ==
    /\ cmd = "new"
    /\ Len(extra) = 2
    /\ pc = "failed"
    /\ result = Raised("ValueError")

====
